---- MODULE Spec2Model ----
(***************************************************************************)
(* The authenticated HTTP client of pointwallet_frontend                   *)
(* (src/src/lib/api.ts, class ApiClient): cookie-backed token store,       *)
(* request interceptor, response interceptor with refresh-and-retry,       *)
(* login / register / refreshToken / logout.                              *)
(*                                                                         *)
(* One step of the model is one JavaScript macrotask: an endpoint method   *)
(* being called (up to the moment its request is on the wire), or one      *)
(* HTTP response being delivered and every promise continuation that       *)
(* follows from it, up to the next request being put on the wire or the    *)
(* caller's promise settling.                                              *)
(***************************************************************************)
EXTENDS Integers, Sequences, FiniteSets, TLC

\* ---------------------------------------------------------------- bounds
MaxDepth == 3      \* requests nested in one invocation (original + refreshes)
MaxFrames == 4     \* requests nested in the two invocations together

\* The places for invocations in progress; a settled invocation leaves its
\* place to the next one, so a run has any number of invocations, two of
\* them at a time.  Invocations act on one another only through the cookies.
Calls == {1, 2}

\* ------------------------------------------------------------ value sets
AccessTokens  == {"A1", "A2"}
RefreshTokens == {"R1", "R2"}
NoCookie == "<undefined>"     \* Cookies.get(name) of a cookie that is not set
Null     == "<null>"          \* JavaScript null
NoHeader == <<>>              \* config.headers.Authorization not set
NoData   == "<nodata>"
Unauthorized == 401
\* 403, 500: the other 4xx and the 5xx; 0: network error / timeout, no response
Statuses == {200, Unauthorized, 403, 500, 0}
\* axios resolves the request promise for a 2xx status and rejects it otherwise
IsSuccess(status) == status = 200
\* the endpoint methods: "api" is every method that only returns the
\* response data; "refreshToken" is the application calling refreshToken()
Methods == {"api", "login", "register", "refreshToken"}
\* the requests by what follows their response: login and register have
\* the same body up to the path they post to
Kinds == {"api", "auth", "refresh"}
RequestKind(method) ==
  CASE method \in {"login", "register"} -> "auth"
    [] method = "refreshToken" -> "refresh"
    [] OTHER -> "api"

\* ------------------------------------------------------------- variables
VARIABLES
  cookies,       \* [access_token, refresh_token]: the js-cookie store
  pc,            \* pc[c]: "idle" | "wire" (a request of c awaits its response)
  stack,         \* stack[c]: the request configs of invocation c, innermost last
  wires,         \* wires[c]: dispatches of the running invocation's own request
  refreshCalls,  \* refreshCalls[c]: its dispatches to /auth/token/refresh/
  ev,            \* what the last step did (request sent, navigations, ...)
  ui             \* React state of the page components (pages section below)

vars == <<cookies, pc, stack, wires, refreshCalls, ev, ui>>

\* no page component is mounted
NoUi == "none"

\* ------------------------------------------------------- token management
getAccessToken(ck) ==
  IF ck.access_token = NoCookie \/ ck.access_token = "" THEN Null ELSE ck.access_token

getRefreshToken(ck) ==
  IF ck.refresh_token = NoCookie \/ ck.refresh_token = "" THEN Null ELSE ck.refresh_token

\* a setTokens that writes each token under the other cookie's name
M_setTokens(ck, accessToken, refreshToken) ==
  [ck EXCEPT !.access_token = refreshToken, !.refresh_token = accessToken]

setTokens(ck, accessToken, refreshToken) ==
  [ck EXCEPT !.access_token = accessToken, !.refresh_token = refreshToken]

\* a clearTokens that removes the access cookie only
M_clearTokens(ck) ==
  [ck EXCEPT !.access_token = NoCookie]

clearTokens(ck) ==
  [ck EXCEPT !.access_token = NoCookie, !.refresh_token = NoCookie]

logout(ck) == clearTokens(ck)

\* `Bearer ${token}`: a null token is formatted as the text "null"
Bearer(token) == <<"Bearer", IF token = Null THEN "null" ELSE token>>

\* a request interceptor whose test is inverted: it stamps no stored token
M_RequestInterceptor(config, ck) ==
  LET token == getAccessToken(ck)
  IN  IF token = Null
      THEN [config EXCEPT !.Authorization = Bearer(token)]
      ELSE config

\* ----------------------------------------------------- request interceptor
RequestInterceptor(config, ck) ==
  LET token == getAccessToken(ck)
  IN  IF token # Null
      THEN [config EXCEPT !.Authorization = Bearer(token)]
      ELSE config

\* a fresh request config, as built by client.get / client.post.  Two fields
\* are history: wrote, the stored tokens were changed inside the
\* refreshToken() call that awaits this request; refresh401, the refresh
\* request made for a 401 of this request was itself answered 401
NewConfig(kind, data) ==
  [kind |-> kind, retry |-> FALSE, Authorization |-> NoHeader,
   data |-> data, wrote |-> FALSE, refresh401 |-> FALSE, stale |-> FALSE]

\* what is kept of a config while its request is on the wire: the
\* Authorization header is dropped, because a config is sent again only by
\* lines 77-78, which assign the header before anything reads it
Frame(config) ==
  [kind |-> config.kind, retry |-> config.retry, data |-> config.data,
   wrote |-> config.wrote, refresh401 |-> config.refresh401,
   stale |-> config.stale]

\* --------------------------------------------------------------- errors
HttpError(status, depth, retried) ==
  [type |-> "http", status |-> status, depth |-> depth, retried |-> retried]
NoRefreshTokenError ==
  [type |-> "norefresh", status |-> 0, depth |-> 0, retried |-> FALSE]

NoResult == [state |-> "pending"]
Resolved == [state |-> "resolved"]
Rejected(err) == [state |-> "rejected", err |-> err]

\* ------------------------------------------- the state threaded in a step
\* ck: cookies, st: the invocation's stack, out: settlement (NoResult while
\* a request is on the wire), sent: the requests put on the wire, navs: the
\* number of assignments to window.location.href, navAt: the cookies at
\* the moments of these assignments, rejects: the refreshToken() calls that
\* rejected.
Thread(ck, st) ==
  [ck |-> ck, st |-> st, out |-> NoResult, sent |-> <<>>, navs |-> 0, navAt |-> {},
   rejects |-> {}]

\* history: the cookies went from ck0 to ck1 inside the refreshToken() calls
\* whose request is in frames 1..t (their awaited post covers frames t and up)
MarkWrote(st, t, ck0, ck1) ==
  [i \in 1..Len(st) |->
     IF i <= t /\ st[i].kind = "refresh" /\ ck0 # ck1
     THEN [st[i] EXCEPT !.wrote = TRUE] ELSE st[i]]

\* the request of frame t goes through the request interceptor and on the wire
Send(th, t, config, resub) ==
  LET cfg == RequestInterceptor(config, th.ck)
  IN  [th EXCEPT !.st = SubSeq(th.st, 1, t - 1) \o <<Frame(cfg)>>,
                 !.sent = Append(@, [kind |-> cfg.kind, depth |-> t, resub |-> resub,
                                     Authorization |-> cfg.Authorization,
                                     data |-> cfg.data,
                                     stored |-> getAccessToken(th.ck)])]

Settle(th, outcome) == [th EXCEPT !.st = <<>>, !.out = outcome]

RECURSIVE PostRejected(_, _, _)
RECURSIVE Catch(_, _, _)

\* a client that signs the session out on every rejected request
M_PostRejected(th, t, err) ==
  IF th.st[t].kind = "refresh"
  THEN LET th1 == [th EXCEPT !.rejects = @ \cup
                     {[depth |-> t, wrote |-> th.st[t].wrote, err |-> err]}]
       IN  IF t = 1 THEN Settle(th1, Rejected(err)) ELSE Catch(th1, t - 1, err)
  ELSE Settle([th EXCEPT !.ck = logout(@)], Rejected(err))

\* the promise of the request in frame t rejects with err
PostRejected(th, t, err) ==
  IF th.st[t].kind = "refresh"
  THEN \* the await in refreshToken() throws: refreshToken() rejects
       LET th1 == [th EXCEPT !.rejects = @ \cup
                     {[depth |-> t, wrote |-> th.st[t].wrote, err |-> err]}]
       IN  IF t = 1 THEN Settle(th1, Rejected(err)) ELSE Catch(th1, t - 1, err)
  ELSE Settle(th, Rejected(err))

\* a catch branch that signals the navigation but forgets logout()
M_Catch(th, t, refreshError) ==
  PostRejected([th EXCEPT !.navs = @ + 1, !.navAt = @ \cup {th.ck}], t, refreshError)

\* a catch branch that signals the navigation before it calls logout()
M_CatchNavigatesFirst(th, t, refreshError) ==
  LET th1 == [th EXCEPT !.navs = @ + 1, !.navAt = @ \cup {th.ck}]
      th2 == [th1 EXCEPT !.ck = logout(@),
                         !.st = MarkWrote(@, t, th.ck, logout(th.ck))]
  IN  PostRejected(th2, t, refreshError)

\* catch (refreshError) in the response interceptor handling frame t:
\* logout(), then the assignment to window.location.href, then the
\* rejection with refreshError
Catch(th, t, refreshError) ==
  LET th1 == [th EXCEPT !.ck = logout(@),
                        !.st = MarkWrote(@, t, th.ck, logout(th.ck))]
      th2 == [th1 EXCEPT !.navs = @ + 1, !.navAt = @ \cup {th1.ck}]
  IN  PostRejected(th2, t, refreshError)

\* ------------------------------------------------------------ refreshToken
\* a refreshToken() without the test for a missing refresh token
M_refreshToken(th, t) ==
  Send(th, t + 1, NewConfig("refresh", getRefreshToken(th.ck)), FALSE)

\* refreshToken() called by the response interceptor handling frame t
\* (t = 0: called by the application).  Lines 126-133: read the refresh
\* token, throw when there is none, else post it to /auth/token/refresh/.
refreshToken(th, t) ==
  LET refreshTok == getRefreshToken(th.ck)
  IN  IF refreshTok = Null
      THEN LET th1 == [th EXCEPT !.rejects = @ \cup
                         {[depth |-> t + 1, wrote |-> FALSE, err |-> NoRefreshTokenError]}]
           IN  IF t = 0 THEN Settle(th1, Rejected(NoRefreshTokenError))
                        ELSE Catch(th1, t, NoRefreshTokenError)
      ELSE Send(th, t + 1, NewConfig("refresh", refreshTok), FALSE)

\* a refreshToken() that passes the two tokens to setTokens in the wrong order
M_refreshTokenWrite(ck, newAccessToken) ==
  LET currentRefreshToken == getRefreshToken(ck)
  IN  IF currentRefreshToken # Null
      THEN setTokens(ck, currentRefreshToken, newAccessToken)
      ELSE ck

\* a refreshToken() that stores the new access token without the test of
\* line 138
M_refreshTokenWriteAlways(ck, newAccessToken) ==
  [ck EXCEPT !.access_token = newAccessToken]

\* a refreshToken() that keeps an access token another refresh has stored
M_refreshTokenWriteOnce(ck, newAccessToken) ==
  LET currentRefreshToken == getRefreshToken(ck)
  IN  IF currentRefreshToken # Null /\ getAccessToken(ck) = Null
      THEN setTokens(ck, newAccessToken, currentRefreshToken)
      ELSE ck

\* lines 135-140: the part of refreshToken() after the awaited post resolved
refreshTokenWrite(ck, newAccessToken) ==
  LET currentRefreshToken == getRefreshToken(ck)
  IN  IF currentRefreshToken # Null
      THEN setTokens(ck, newAccessToken, currentRefreshToken)
      ELSE ck

\* a resubmission that builds the config anew and loses the retried flag
M_Resubmit(th, t) ==
  LET token == getAccessToken(th.ck)
      f == th.st[t]
      originalRequest == [kind |-> f.kind, retry |-> FALSE, data |-> f.data,
                          wrote |-> f.wrote, refresh401 |-> f.refresh401, stale |-> f.stale,
                          Authorization |-> Bearer(token)]
  IN  Send(th, t, originalRequest, TRUE)

\* lines 76-78: refreshToken() resolved in the interceptor handling frame t
Resubmit(th, t) ==
  LET token == getAccessToken(th.ck)
      f == th.st[t]
      originalRequest == [kind |-> f.kind, retry |-> f.retry, data |-> f.data,
                          wrote |-> f.wrote, refresh401 |-> f.refresh401, stale |-> f.stale,
                          Authorization |-> Bearer(token)]
  IN  Send(th, t, originalRequest, TRUE)

\* a login() / register() that stores the two tokens in the wrong order
M_PostResolved(th, t, resp) ==
  LET kind == th.st[t].kind
  IN  CASE kind = "refresh" ->
             LET ck1 == refreshTokenWrite(th.ck, resp.access)
                 th1 == [th EXCEPT !.ck = ck1,
                                   !.st = MarkWrote(@, t - 1, th.ck, ck1)]
             IN  IF t = 1 THEN Settle(th1, Resolved) ELSE Resubmit(th1, t - 1)
        [] kind = "auth" ->
             Settle([th EXCEPT !.ck = setTokens(@, resp.refresh, resp.access)], Resolved)
        [] OTHER -> Settle(th, Resolved)

\* the promise of the request in frame t resolves with response resp
PostResolved(th, t, resp) ==
  LET kind == th.st[t].kind
  IN  CASE kind = "refresh" ->
             LET ck1 == refreshTokenWrite(th.ck, resp.access)
                 th1 == [th EXCEPT !.ck = ck1,
                                   !.st = MarkWrote(@, t - 1, th.ck, ck1)]
             IN  IF t = 1 THEN Settle(th1, Resolved) ELSE Resubmit(th1, t - 1)
        [] kind = "auth" ->
             Settle([th EXCEPT !.ck = setTokens(@, resp.access, resp.refresh)], Resolved)
        [] OTHER -> Settle(th, Resolved)

\* history: the 401 being handled answers the refresh request of frame t,
\* which was made for a 401 of the request in frame t - 1
Note401(st, t) ==
  IF t >= 2 /\ st[t].kind = "refresh"
  THEN [st EXCEPT ![t - 1].refresh401 = TRUE] ELSE st

\* a response interceptor that takes every 4xx for an authorization failure
M_ResponseInterceptor4xx(th, t, resp) ==
  IF IsSuccess(resp.status)
  THEN PostResolved(th, t, resp)
  ELSE IF resp.status \in 400..499 /\ ~th.st[t].retry
       THEN refreshToken([th EXCEPT !.st = Note401(@, t), !.st[t].retry = TRUE], t)
       ELSE PostRejected(th, t, HttpError(resp.status, t, th.st[t].retry))

\* a response interceptor that does not test the retried flag
M_ResponseInterceptor(th, t, resp) ==
  IF IsSuccess(resp.status)
  THEN PostResolved(th, t, resp)
  ELSE IF resp.status = Unauthorized
       THEN refreshToken([th EXCEPT !.st = Note401(@, t), !.st[t].retry = TRUE], t)
       ELSE PostRejected(th, t, HttpError(resp.status, t, th.st[t].retry))

\* ---------------------------------------------------- response interceptor
ResponseInterceptor(th, t, resp) ==
  IF IsSuccess(resp.status)
  THEN PostResolved(th, t, resp)
  ELSE IF resp.status = Unauthorized /\ ~th.st[t].retry
       THEN refreshToken([th EXCEPT !.st = Note401(@, t), !.st[t].retry = TRUE], t)
       ELSE PostRejected(th, t, HttpError(resp.status, t, th.st[t].retry))

\* -------------------------------------------------------------- the steps
NoResp == [status |-> 0, access |-> NoData, refresh |-> NoData]

\* what the backend can answer to a request of the given kind
Responses(kind) ==
  {[status |-> s, access |-> NoData, refresh |-> NoData] : s \in {x \in Statuses : ~IsSuccess(x)}}
  \cup (CASE kind = "refresh" ->
               {[status |-> 200,access |-> a, refresh |-> NoData] : a \in AccessTokens}
          [] kind = "auth" ->
               {[status |-> 200,access |-> a, refresh |-> r] :
                    a \in AccessTokens, r \in RefreshTokens}
          [] OTHER -> {[status |-> 200,access |-> NoData, refresh |-> NoData]})

AllResponses == UNION {Responses(k) : k \in Kinds}

\* of the requests put on the wire: those to /auth/token/refresh/, and those
\* of the invocation's own request
RefreshSends(sent) == Cardinality({i \in 1..Len(sent) : sent[i].kind = "refresh"})
OwnSends(sent) == Cardinality({i \in 1..Len(sent) : sent[i].depth = 1})

\* op: the step; c: the invocation; method: the endpoint method called;
\* root, root401: the kind of the invocation's own request and its
\* refresh401 before the step; kind, depth, retried: the request whose
\* response was delivered (its frame and its retried flag before the
\* step); resp: the response; overwrote: the response is a successful
\* login's or register's and a refresh token was stored when it was
\* delivered; the rest is the thread at the end of the step
\* and the invocation's dispatch counts
Event(op, c, method, root, kind, depth, retried, resp, th) ==
  [op |-> op, c |-> c, method |-> method, root |-> root.kind,
   root401 |-> root.refresh401, stale |-> root.stale, kind |-> kind, depth |-> depth,
   retried |-> retried, resp |-> resp,
   overwrote |-> /\ kind = "auth" /\ IsSuccess(resp.status)
                 /\ getRefreshToken(cookies) # Null,
   sent |-> th.sent, navs |-> th.navs, navAt |-> th.navAt, rejects |-> th.rejects,
   out |-> th.out,
   wires |-> wires[c] + OwnSends(th.sent),
   refreshCalls |-> refreshCalls[c] + RefreshSends(th.sent)]

\* history: the session is cleared (by logout(), or by the catch branch of
\* the response interceptor) while the invocation with the stack st is in
\* progress; kept in the frame of its own request (login, register or api)
MarkStale(st) ==
  [i \in 1..Len(st) |-> IF st[i].kind \in {"auth", "api"}
                        THEN [st[i] EXCEPT !.stale = TRUE]
                        ELSE st[i]]

\* the thread's result becomes the state; a settled invocation leaves its
\* place to the next one
Apply(c, th, e) ==
  /\ cookies' = th.ck
  /\ stack' = [d \in Calls |-> IF d = c THEN th.st
                              ELSE IF th.navs > 0 THEN MarkStale(stack[d])
                              ELSE stack[d]]
  /\ pc' = [pc EXCEPT ![c] = IF th.out = NoResult THEN "wire" ELSE "idle"]
  /\ wires' = [wires EXCEPT ![c] = IF th.out = NoResult THEN e.wires ELSE 0]
  /\ refreshCalls' = [refreshCalls EXCEPT ![c] =
                         IF th.out = NoResult THEN e.refreshCalls ELSE 0]
  /\ ev' = e
  /\ UNCHANGED ui

\* an endpoint method is called: client.get / client.post puts its request
\* on the wire; refreshToken() called by the application starts at its
\* first line.  An invocation takes the first free place.
Call(c, method) ==
  /\ pc[c] = "idle"
  /\ \A d \in Calls : d < c => pc[d] # "idle"
  /\ LET th0 == Thread(cookies, <<>>)
         cfg == NewConfig(RequestKind(method), NoData)
         th  == IF method = "refreshToken"
                THEN refreshToken(th0, 0)
                ELSE Send(th0, 1, cfg, FALSE)
     IN  Apply(c, th, Event("call", c, method, cfg, cfg.kind, 0, FALSE, NoResp, th))

\* the response (or network error) of the request on the wire is delivered.
\* The backend answers 401 to a first attempt only while the nesting it
\* causes stays within MaxDepth and MaxFrames.
Receive(c, resp) ==
  /\ pc[c] = "wire"
  /\ LET t   == Len(stack[c])
         top == stack[c][t]
     IN  /\ resp \in Responses(top.kind)
         /\ (resp.status = Unauthorized /\ ~top.retry /\ getRefreshToken(cookies) # Null)
               => (t < MaxDepth /\ Len(stack[1]) + Len(stack[2]) < MaxFrames)
         /\ LET th == ResponseInterceptor(Thread(cookies, stack[c]), t, resp)
            IN  Apply(c, th, Event("receive", c, "none", stack[c][1], top.kind, t,
                                   top.retry, resp, th))

Quiet(op) ==
  [op |-> op, c |-> 0, method |-> "none", root |-> "none", root401 |-> FALSE,
   stale |-> FALSE, overwrote |-> FALSE,
   kind |-> "none", depth |-> 0, retried |-> FALSE, resp |-> NoResp,
   sent |-> <<>>, navs |-> 0, navAt |-> {}, rejects |-> {}, out |-> NoResult,
   wires |-> 0, refreshCalls |-> 0]

\* the application calls apiClient.logout()
Logout ==
  /\ cookies' = logout(cookies)
  /\ stack' = [c \in Calls |-> MarkStale(stack[c])]
  /\ ev' = Quiet("logout")
  /\ UNCHANGED <<pc, wires, refreshCalls, ui>>

\* the browser drops the access cookie after its 1 day, and the refresh
\* cookie after its 7 days; both are always set together, so the refresh
\* cookie outlives the access cookie
ExpireAccess ==
  /\ cookies.access_token # NoCookie
  /\ cookies' = [cookies EXCEPT !.access_token = NoCookie]
  /\ ev' = Quiet("expire")
  /\ UNCHANGED <<pc, stack, wires, refreshCalls, ui>>

ExpireRefresh ==
  /\ cookies.access_token = NoCookie
  /\ cookies.refresh_token # NoCookie
  /\ cookies' = [cookies EXCEPT !.refresh_token = NoCookie]
  /\ ev' = Quiet("expire")
  /\ UNCHANGED <<pc, stack, wires, refreshCalls, ui>>

EmptyCookies == [access_token |-> NoCookie, refresh_token |-> NoCookie]

\* the cookies outlive the page: the client is constructed with no session
\* or with the session a previous page load left
Init ==
  /\ cookies \in {EmptyCookies, setTokens(EmptyCookies, "A1", "R1")}
  /\ pc = [c \in Calls |-> "idle"]
  /\ stack = [c \in Calls |-> <<>>]
  /\ wires = [c \in Calls |-> 0]
  /\ refreshCalls = [c \in Calls |-> 0]
  /\ ev = Quiet("init")
  /\ ui = NoUi

DoCall == \E c \in Calls, method \in Methods : Call(c, method)
DoReceive == \E c \in Calls, resp \in AllResponses : Receive(c, resp)

Next == DoCall \/ DoReceive \/ Logout \/ ExpireAccess \/ ExpireRefresh

Spec == Init /\ [][Next]_vars

TypeOK ==
  /\ cookies.access_token \in AccessTokens \cup {NoCookie}
  /\ cookies.refresh_token \in RefreshTokens \cup {NoCookie}
  /\ \A c \in Calls : pc[c] \in {"idle", "wire"}

\* ------------------------------------------------- the token store alone
\* The token-management methods applied to any content of the two cookies:
\* setTokens with any two strings, clearTokens, logout.
TokenValues == AccessTokens \cup RefreshTokens \cup {""}
CookieValues == TokenValues \cup {NoCookie}

\* op: the method; pre: the cookies before it; accessToken, refreshToken:
\* the arguments of setTokens
StoreEvent(op, pre, a, r) ==
  [op |-> op, pre |-> pre, accessToken |-> a, refreshToken |-> r]

StoreSetTokens(a, r) ==
  /\ cookies' = setTokens(cookies, a, r)
  /\ ev' = StoreEvent("setTokens", cookies, a, r)
  /\ UNCHANGED <<pc, stack, wires, refreshCalls, ui>>

StoreClearTokens ==
  /\ cookies' = clearTokens(cookies)
  /\ ev' = StoreEvent("clearTokens", cookies, NoData, NoData)
  /\ UNCHANGED <<pc, stack, wires, refreshCalls, ui>>

StoreLogout ==
  /\ cookies' = logout(cookies)
  /\ ev' = StoreEvent("logout", cookies, NoData, NoData)
  /\ UNCHANGED <<pc, stack, wires, refreshCalls, ui>>

StoreInit ==
  /\ cookies \in [access_token : CookieValues, refresh_token : CookieValues]
  /\ pc = [c \in Calls |-> "idle"]
  /\ stack = [c \in Calls |-> <<>>]
  /\ wires = [c \in Calls |-> 0]
  /\ refreshCalls = [c \in Calls |-> 0]
  /\ ev = StoreEvent("init", cookies, NoData, NoData)
  /\ ui = NoUi

DoSetTokens == \E a \in TokenValues, r \in TokenValues : StoreSetTokens(a, r)

StoreNext == DoSetTokens \/ StoreClearTokens \/ StoreLogout

StoreSpec == StoreInit /\ [][StoreNext]_vars

\* --------------------------------------------- the endpoint methods alone
\* What each endpoint method hands to the axios instance and what it returns
\* from the response, without the interceptors (which Spec has).
EndpointMethods ==
  {"login", "register", "refreshToken", "getCurrentUser", "updateProfile",
   "getWalletBalance", "getTransactionHistory", "getStores", "getStore",
   "getStoreAnalytics", "getStoreCommissions", "getProducts", "getProduct",
   "getProductRecommendations", "redeemProduct",
   "getProductReimbursementRequests", "updateProductReimbursementRequest",
   "uploadInvoice", "getInvoices", "getInvoiceProcessingStatus",
   "getDashboardStats", "getSystemConfiguration", "updateSystemConfiguration",
   "getReimbursementRequests", "approveReimbursement", "healthCheck",
   "uploadFile", "apiCall"}

Files == {"file1", "file2"}
Invoices == {"invoice1", "invoice2"}
DefaultContentType == "application/json"
Multipart == "multipart/form-data"
NoContentType == "<none>"     \* the config names no Content-Type
\* the config argument of apiCall: none, or one that sets a Content-Type
Configs == {[ContentType |-> NoContentType], [ContentType |-> "text/plain"]}
\* the arguments of a call: file for the uploads; httpMethod, endpoint and
\* config for apiCall (endpoint for uploadFile too)
Args == [file : Files, httpMethod : {"GET", "POST"}, endpoint : {"/custom/"},
         config : Configs]

HttpMethod(method, arg) ==
  CASE method \in {"login", "register", "refreshToken", "redeemProduct",
                   "uploadInvoice", "updateSystemConfiguration",
                   "approveReimbursement", "uploadFile"} -> "POST"
    [] method \in {"updateProfile", "updateProductReimbursementRequest"} -> "PATCH"
    [] method = "apiCall" -> arg.httpMethod
    [] OTHER -> "GET"

Url(method, arg) ==
  CASE method = "login" -> "/auth/login/"
    [] method = "register" -> "/auth/register/"
    [] method = "refreshToken" -> "/auth/token/refresh/"
    [] method \in {"getCurrentUser", "updateProfile"} -> "/auth/profile/"
    [] method = "getWalletBalance" -> "/auth/wallet/balance/"
    [] method = "getTransactionHistory" -> "/auth/wallet/transactions/"
    [] method = "getStores" -> "/wallet/stores/"
    [] method = "getStore" -> "/wallet/stores/${id}/"
    [] method = "getStoreAnalytics" -> "/stores/${storeId}/analytics/"
    [] method = "getStoreCommissions" -> "/stores/${storeId}/commissions/"
    [] method = "getProducts" -> "/wallet/products/"
    [] method = "getProduct" -> "/wallet/products/${id}/"
    [] method = "getProductRecommendations" -> "/wallet/products/recommendations/"
    [] method = "redeemProduct" -> "/invoices/redeem/"
    [] method = "getProductReimbursementRequests" -> "/stores/product-reimbursements/"
    [] method = "updateProductReimbursementRequest" -> "/stores/product-reimbursements/${id}/"
    [] method = "uploadInvoice" -> "/invoices/upload/"
    [] method = "getInvoices" -> "/invoices/list/"
    [] method = "getInvoiceProcessingStatus" -> "/invoices/${invoiceId}/status/"
    [] method = "getDashboardStats" -> "/wallet/stats/"
    [] method \in {"getSystemConfiguration", "updateSystemConfiguration"} ->
         "/wallet/configuration/"
    [] method = "getReimbursementRequests" -> "/invoices/reimbursements/"
    [] method = "approveReimbursement" -> "/invoices/reimbursements/approve/"
    [] method = "healthCheck" -> "/health/"
    [] OTHER -> arg.endpoint

\* the body: a FormData is the sequence of its fields; every other body is
\* left as "json" (an object of the arguments) or NoData (none)
Body(method, arg) ==
  CASE method = "uploadInvoice" -> <<[name |-> "image", value |-> arg.file]>>
    [] method = "uploadFile" -> <<[name |-> "file", value |-> arg.file]>>
    [] HttpMethod(method, arg) = "GET" -> NoData
    [] OTHER -> "json"

\* the Content-Type the method's own config names
OwnContentType(method, arg) ==
  CASE method \in {"uploadInvoice", "uploadFile"} -> Multipart
    [] method = "apiCall" -> arg.config.ContentType
    [] OTHER -> NoContentType

\* the one client.get / post / patch / request call of the method's body
Request(method, arg) ==
  [httpMethod |-> HttpMethod(method, arg), url |-> Url(method, arg),
   data |-> Body(method, arg), ContentType |-> OwnContentType(method, arg)]

\* an instance whose defaults win over the headers of the request config
M_MergeConfig(request) ==
  [request EXCEPT !.ContentType = DefaultContentType]

\* axios merges the request config over the defaults of axios.create
MergeConfig(request) ==
  [request EXCEPT !.ContentType = IF @ = NoContentType THEN DefaultContentType ELSE @]

\* the response bodies: an envelope with the members the methods pick from
Bodies == [invoice : Invoices, configurations : {"configurations1"}]

\* what the method returns from the body of a successful response
Return(method, body) ==
  CASE method = "uploadInvoice" -> body.invoice
    [] method = "getSystemConfiguration" -> body.configurations
    [] method \in {"refreshToken", "updateProductReimbursementRequest",
                   "updateSystemConfiguration", "approveReimbursement"} -> "undefined"
    [] OTHER -> body

\* op, method, arg: the call; sent: the requests the step put on the wire;
\* request, body: the request answered and the body of the answer
EndpointEvent(op, method, arg, sent, request, body, out) ==
  [op |-> op, method |-> method, arg |-> arg, sent |-> sent, request |-> request,
   body |-> body, out |-> out]

EndpointCall(method, arg) ==
  /\ pc[1] = "idle"
  /\ LET request == MergeConfig(Request(method, arg))
     IN  /\ stack' = [stack EXCEPT ![1] = <<[method |-> method, arg |-> arg,
                                             request |-> request]>>]
         /\ ev' = EndpointEvent("call", method, arg, <<request>>, NoData, NoData, NoResult)
  /\ pc' = [pc EXCEPT ![1] = "wire"]
  /\ UNCHANGED <<cookies, wires, refreshCalls, ui>>

\* the request is answered 2xx with the given body
EndpointResolve(body) ==
  /\ pc[1] = "wire"
  /\ LET f == stack[1][1]
     IN  ev' = EndpointEvent("receive", f.method, f.arg, <<>>, f.request, body,
                             [state |-> "resolved", value |-> Return(f.method, body)])
  /\ pc' = [pc EXCEPT ![1] = "idle"]
  /\ stack' = [stack EXCEPT ![1] = <<>>]
  /\ UNCHANGED <<cookies, wires, refreshCalls, ui>>

\* the request fails with an error that the response interceptor passes on
EndpointReject(status) ==
  /\ pc[1] = "wire"
  /\ LET f == stack[1][1]
     IN  ev' = EndpointEvent("receive", f.method, f.arg, <<>>, f.request, NoData,
                             Rejected(HttpError(status, 1, FALSE)))
  /\ pc' = [pc EXCEPT ![1] = "idle"]
  /\ stack' = [stack EXCEPT ![1] = <<>>]
  /\ UNCHANGED <<cookies, wires, refreshCalls, ui>>

EndpointInit ==
  /\ cookies = EmptyCookies
  /\ pc = [c \in Calls |-> "idle"]
  /\ stack = [c \in Calls |-> <<>>]
  /\ wires = [c \in Calls |-> 0]
  /\ refreshCalls = [c \in Calls |-> 0]
  /\ ev = EndpointEvent("init", "none", NoData, <<>>, NoData, NoData, NoResult)
  /\ ui = NoUi

DoEndpointCall == \E method \in EndpointMethods, arg \in Args : EndpointCall(method, arg)
DoEndpointResolve == \E body \in Bodies : EndpointResolve(body)
DoEndpointReject == \E status \in {403, 500, 0} : EndpointReject(status)

EndpointNext == DoEndpointCall \/ DoEndpointResolve \/ DoEndpointReject

EndpointSpec == EndpointInit /\ [][EndpointNext]_vars

\* ------------------------------------------------------------ properties
Received == ev.op = "receive"
Settled == ev.out # NoResult
SessionCleared == getAccessToken(cookies) = Null /\ getRefreshToken(cookies) = Null

\* C1: every request put on the wire while an access token is stored
\* (first dispatches, resubmissions, login / register / refresh requests)
\* carries Authorization = "Bearer " followed by the token stored at that
\* moment.
C1_BearerOnEveryDispatch ==
  \A i \in DOMAIN ev.sent :
     ev.sent[i].stored # Null => ev.sent[i].Authorization = <<"Bearer", ev.sent[i].stored>>

\* a resubmission and a refresh request dispatched while a token is stored
C1_Witness ==
  /\ ev.sent # <<>>
  /\ ev.sent[1].resub
  /\ ev.sent[1].kind = "refresh"
  /\ ev.sent[1].stored \in AccessTokens

\* C2: a request whose first response is a 401 causes exactly one call to
\* the token-refresh endpoint, whatever that endpoint answers (none only
\* when no refresh token is stored), and at most one resubmission of the
\* request, which carries the access token stored after the refresh.
C2_ExactlyOneRefresh ==
  /\ \A c \in Calls :
        (pc[c] = "wire" /\ stack[c][1].kind # "refresh")
           => refreshCalls[c] <= 1 /\ wires[c] <= 2
  /\ (ev.op \in {"call", "receive"} /\ ev.root # "refresh")
        => ev.refreshCalls <= 1 /\ ev.wires <= 2
  /\ (Received /\ ev.depth = 1 /\ ev.root # "refresh" /\ ~ev.retried
        /\ ev.resp.status = Unauthorized)
        => \/ (ev.sent # <<>> /\ ev.sent[1].kind = "refresh")
           \/ ev.out = Rejected(NoRefreshTokenError)
  /\ \A i \in DOMAIN ev.sent :
        (ev.sent[i].resub /\ ev.sent[i].stored # Null)
           => ev.sent[i].Authorization = <<"Bearer", getAccessToken(cookies)>>

\* C3: a 401 for a request whose retried flag is already true is rejected
\* with that same error; the interceptor makes no refresh call and no
\* resubmission, and for the caller's own request nothing signs the session
\* out: no navigation, tokens as they were.  (For a retried refresh request
\* the one navigation per enclosing interceptor is that interceptor's catch.)
Retried401 ==
  ev'.op = "receive" /\ ev'.resp.status = Unauthorized /\ ev'.retried

C3_Retried401PassedThrough ==
  [][Retried401 =>
       /\ ev'.sent = <<>>
       /\ ev'.refreshCalls = refreshCalls[ev'.c]
       /\ ev'.out = Rejected(HttpError(Unauthorized, ev'.depth, TRUE))
       /\ ev'.navs = ev'.depth - 1
       /\ ev'.depth = 1 => cookies' = cookies]_vars

\* the resubmitted api request is answered 401 while a session is stored
C3_Witness ==
  /\ Received
  /\ ev.resp.status = Unauthorized
  /\ ev.retried
  /\ ev.depth = 1
  /\ ev.root = "api"
  /\ ev.out.state = "rejected"
  /\ getAccessToken(cookies) # Null

C5_Refresh401EndsSession ==
  (Received /\ Settled /\ ev.root = "api" /\ ev.root401)
     => /\ ev.out.state = "rejected"
        /\ ev.navs >= 1
        /\ SessionCleared

\* C6: two requests that both got 401 before any refresh completed share
\* one refresh call: no two invocations have their first refresh request on
\* the wire together.
InFirstRefresh(c) ==
  /\ pc[c] = "wire"
  /\ Len(stack[c]) = 2
  /\ stack[c][1].kind = "api"
  /\ stack[c][2].kind = "refresh"
  /\ ~stack[c][2].retry

C6_SingleFlightRefresh ==
  Cardinality({c \in Calls : InFirstRefresh(c)}) <= 1

\* C7: the retried flag of a request goes from false to true at most once
\* and never back, the request is on the wire at most twice, and what the
\* resubmission gets (success or any failure, a second 401 included) is
\* what the caller gets, with no further request and no sign-out.
RetryKept ==
  \A c \in Calls :
     (stack[c] # <<>> /\ stack[c][1].retry /\ stack'[c] # <<>>) => stack'[c][1].retry

ResubmissionAnswered == ev'.op = "receive" /\ ev'.depth = 1 /\ ev'.retried

ResubmissionPassedOn ==
  /\ ev'.sent = <<>>
  /\ ev'.navs = 0
  /\ ev'.wires = 2
  /\ ev'.out = IF IsSuccess(ev'.resp.status) THEN Resolved
               ELSE Rejected(HttpError(ev'.resp.status, 1, TRUE))

RefreshSucceeded ==
  ev'.op = "receive" /\ ev'.kind = "refresh" /\ IsSuccess(ev'.resp.status)

C8_RefreshKeepsRefreshToken ==
  [][RefreshSucceeded =>
       /\ cookies'.refresh_token = cookies.refresh_token
       /\ getRefreshToken(cookies) # Null => getAccessToken(cookies') = ev'.resp.access
       /\ getRefreshToken(cookies) = Null => cookies' = cookies]_vars

\* the refresh made for a 401 returns A2 and the session becomes (A2, R1)
C8_Witness ==
  /\ Received
  /\ ev.kind = "refresh"
  /\ ev.depth = 2
  /\ ev.resp = [status |-> 200, access |-> "A2", refresh |-> NoData]
  /\ cookies = [access_token |-> "A2", refresh_token |-> "R1"]

\* C9: refreshToken() invoked while no refresh token is stored fails with
\* the no-refresh-token error and dispatches no request.
RefreshTokenInvoked ==
  \/ ev'.op = "receive" /\ ev'.resp.status = Unauthorized /\ ~ev'.retried
  \/ ev'.op = "call" /\ ev'.method = "refreshToken"

C9_NoRefreshTokenNoRequest ==
  [][(RefreshTokenInvoked /\ getRefreshToken(cookies) = Null) =>
       /\ ev'.sent = <<>>
       /\ ev'.refreshCalls = refreshCalls[ev'.c]
       /\ ev'.out = Rejected(NoRefreshTokenError)
       /\ \E r \in ev'.rejects : r.err = NoRefreshTokenError]_vars

\* a first 401 arrives when no refresh token is stored
C9_Witness ==
  /\ Received
  /\ ev.resp.status = Unauthorized
  /\ ~ev.retried
  /\ ev.depth = 1
  /\ ev.sent = <<>>
  /\ ev.out = Rejected(NoRefreshTokenError)

\* C10: a refreshToken() call that fails leaves the stored tokens as they
\* were when it started: nothing inside the call writes or clears them.
C10_FailedRefreshLeavesSession ==
  \A r \in ev.rejects : ~r.wrote

\* a login or register succeeded in the step: its tokens were stored
LoginSucceeded ==
  Received /\ ev.kind = "auth" /\ IsSuccess(ev.resp.status)

\* C11: once the session was cleared by logout() or by a failed refresh,
\* both tokens stay absent until a login or register called after the
\* clearing succeeds: no response of a login or register that was in flight
\* when the session was cleared stores tokens.
C11_ClearedStaysCleared ==
  (LoginSucceeded /\ ev.stale) => SessionCleared

\* the refresh token is stored and the step changes its cookie
RefreshTokenChanged ==
  getRefreshToken(cookies) # Null /\ cookies'.refresh_token # cookies.refresh_token

\* the step is a logout: logout() called by the application, or by the catch
\* branch of the response interceptor
LogoutStep ==
  ev'.op = "logout" \/ (ev'.op = "receive" /\ ev'.navs > 0)

\* C12: once a refresh token is stored, its value changes only in a step
\* that is a successful refresh or a logout (or in which the browser drops
\* the expired cookie); no login or register replaces it.
C12_RefreshTokenKept ==
  [][RefreshTokenChanged => (RefreshSucceeded \/ LogoutStep \/ ev'.op = "expire")]_vars

\* C12 as amended: once a refresh token is stored, its value changes only in
\* a step that is a successful login or register, which stores the refresh
\* token of its response, or a logout (explicit or forced by a refresh
\* failure) or the expiry of the cookie, which remove it; a successful
\* refresh never changes it.
C12_RefreshTokenChanges ==
  [][RefreshTokenChanged =>
       \/ /\ ev'.op = "receive" /\ ev'.kind = "auth" /\ IsSuccess(ev'.resp.status)
          /\ cookies'.refresh_token = ev'.resp.refresh
       \/ /\ (LogoutStep \/ ev'.op = "expire")
          /\ cookies'.refresh_token = NoCookie]_vars

\* a login succeeds while the refresh token R1 is stored, and R2 replaces it
C12_Witness ==
  /\ LoginSucceeded
  /\ ev.overwrote
  /\ ev.resp.refresh = "R2"
  /\ cookies.refresh_token = "R2"

\* C13: an error other than 401 (another 4xx, a 5xx, or a failure with no
\* response) is rejected by the response interceptor with that same error:
\* it makes no refresh call and no resubmission, and for the caller's own
\* request nothing signs the session out: no navigation, tokens as they
\* were.  (When the failed request is a refresh request, the one navigation
\* per enclosing interceptor is that interceptor's catch.)
OtherError ==
  ev'.op = "receive" /\ ~IsSuccess(ev'.resp.status) /\ ev'.resp.status # Unauthorized

C13_OtherErrorsPassedThrough ==
  [][OtherError =>
       /\ ev'.sent = <<>>
       /\ ev'.refreshCalls = refreshCalls[ev'.c]
       /\ ev'.wires = wires[ev'.c]
       /\ ev'.out = Rejected(HttpError(ev'.resp.status, ev'.depth, ev'.retried))
       /\ ev'.navs = ev'.depth - 1
       /\ ev'.depth = 1 => cookies' = cookies]_vars

\* a first attempt of an api request is answered 403 while a session with a
\* refresh token is stored
C13_Witness ==
  /\ Received
  /\ ev.resp.status = 403
  /\ ev.depth = 1
  /\ ~ev.retried
  /\ ev.root = "api"
  /\ ev.out = Rejected(HttpError(403, 1, FALSE))
  /\ getRefreshToken(cookies) # Null

\* C14: a request put on the wire while no access token is stored carries no
\* Authorization header, be it a first dispatch or a resubmission after a
\* refresh.
C14_NoTokenNoHeader ==
  \A i \in 1..Len(ev.sent) :
     ev.sent[i].stored = Null => ev.sent[i].Authorization = NoHeader

\* C15: when login or register resolves with the tokens A and R, A and R are
\* the stored tokens, and every request dispatched while they are stored
\* (in a step that writes no token) carries "Bearer A"; a login or register
\* that is rejected stores no token (the tokens are as they were, or removed
\* by the logout of a failed refresh).
LoginRejected ==
  ev'.op = "receive" /\ ev'.root = "auth" /\ ev'.out # NoResult /\ ev'.out # Resolved

C15_LoginStoresTokens ==
  [][/\ (ev'.op = "receive" /\ ev'.kind = "auth" /\ IsSuccess(ev'.resp.status)) =>
          /\ ev'.out = Resolved
          /\ getAccessToken(cookies') = ev'.resp.access
          /\ getRefreshToken(cookies') = ev'.resp.refresh
     /\ (cookies' = cookies /\ getAccessToken(cookies) # Null) =>
          \A i \in 1..Len(ev'.sent) :
             ev'.sent[i].Authorization = <<"Bearer", getAccessToken(cookies)>>
     /\ LoginRejected =>
          cookies' = IF ev'.navs > 0 THEN logout(cookies) ELSE cookies]_vars

\* a login resolves with the tokens A2 and R2, which are then the stored ones
C15_Witness ==
  /\ LoginSucceeded
  /\ ev.out = Resolved
  /\ ev.resp.access = "A2"
  /\ ev.resp.refresh = "R2"
  /\ cookies = [access_token |-> "A2", refresh_token |-> "R2"]

\* C16: the stored token pair changes only in a step of a successful login
\* or register, of a refresh, or of a logout (explicit or forced by a
\* refresh failure), or when the browser drops an expired cookie; a call of
\* an endpoint method changes nothing, and a domain endpoint call that
\* completes on an answer other than 401 leaves both tokens as they were.
TokenStep ==
  \/ ev'.op = "logout"
  \/ ev'.op = "expire"
  \/ ev'.op = "receive" /\ ev'.navs > 0
  \/ ev'.op = "receive" /\ ev'.kind \in {"auth", "refresh"} /\ IsSuccess(ev'.resp.status)

C16_TokensChangeOnlyByAuth ==
  [][/\ cookies' # cookies => TokenStep
     /\ (ev'.op = "receive" /\ ev'.root = "api" /\ ev'.depth = 1
          /\ ev'.resp.status # Unauthorized) =>
            (ev'.out # NoResult /\ cookies' = cookies)]_vars

\* getCurrentUser() is answered 200 at its first attempt, session as it was
C16_Witness ==
  /\ Received
  /\ ev.root = "api"
  /\ ev.depth = 1
  /\ ~ev.retried
  /\ IsSuccess(ev.resp.status)
  /\ ev.out = Resolved
  /\ cookies = [access_token |-> "A1", refresh_token |-> "R1"]

\* C17: an endpoint call settles after at most three dispatches: its
\* request, one refresh request, one resubmission.
C17_AtMostThreeDispatches ==
  ev.root \in {"api", "auth"} => ev.wires + ev.refreshCalls <= 3

\* C18: setTokens(a, r) followed by reads gives getAccessToken() = a and
\* getRefreshToken() = r, for all strings a and r and whatever was stored.
C18_SetThenGet ==
  ev.op = "setTokens" =>
     /\ getAccessToken(cookies) = ev.accessToken
     /\ getRefreshToken(cookies) = ev.refreshToken

\* C18 as amended: setTokens(a, r) followed by reads gives getAccessToken()
\* = a and getRefreshToken() = r for all non-empty strings a and r, whatever
\* was stored; an empty string is stored but read back as null.
C18_SetThenGetNonEmpty ==
  ev.op = "setTokens" =>
     /\ getAccessToken(cookies) = IF ev.accessToken = "" THEN Null ELSE ev.accessToken
     /\ getRefreshToken(cookies) = IF ev.refreshToken = "" THEN Null ELSE ev.refreshToken
     /\ cookies.access_token = ev.accessToken
     /\ cookies.refresh_token = ev.refreshToken

\* setTokens("A2", "R2") on the session (A1, R1), read back as A2 and R2
C18_Witness ==
  /\ ev.op = "setTokens"
  /\ ev.pre = [access_token |-> "A1", refresh_token |-> "R1"]
  /\ ev.accessToken = "A2"
  /\ ev.refreshToken = "R2"
  /\ getAccessToken(cookies) = "A2"
  /\ getRefreshToken(cookies) = "R2"

\* C19: logout() (clearTokens) from any content of the store leaves both
\* tokens absent, also when the store was already empty.
C19_LogoutClears ==
  ev.op \in {"logout", "clearTokens"} =>
     /\ getAccessToken(cookies) = Null
     /\ getRefreshToken(cookies) = Null
     /\ cookies = EmptyCookies

\* logout() applied to an empty store
C19_Witness ==
  /\ ev.op = "logout"
  /\ ev.pre = EmptyCookies
  /\ SessionCleared

\* C20: uploadInvoice(file) dispatches exactly one request, a POST to
\* /invoices/upload/ with Content-Type multipart/form-data and a body of one
\* field that holds the file, and on success returns the invoice member of
\* the response body ...
UploadInvoiceRequest(file) ==
  [httpMethod |-> "POST", url |-> "/invoices/upload/",
   data |-> <<[name |-> "image", value |-> file]>>, ContentType |-> Multipart]

UploadInvoiceDone ==
  /\ (ev.op = "call" /\ ev.method = "uploadInvoice") =>
        ev.sent = <<UploadInvoiceRequest(ev.arg.file)>>
  /\ (ev.op = "receive" /\ ev.method = "uploadInvoice" /\ ev.out.state = "resolved") =>
        ev.out.value = ev.body.invoice

C21_ClearedBeforeNavigation ==
  ev.navs > 0 =>
     /\ ev.navAt = {EmptyCookies}
     /\ SessionCleared
     /\ ev.out.state = "rejected"
     /\ ev.out.err \in {r.err : r \in ev.rejects}
     /\ (ev.out.err.type = "norefresh" \/ ev.out.err.depth >= 2)

\* getCurrentUser() got 401, the refresh request 500: the session (A1, R1)
\* is gone, the navigation signalled once, the caller gets the 500
C21_Witness ==
  /\ Received
  /\ ev.root = "api"
  /\ ev.navs = 1
  /\ ev.navAt = {EmptyCookies}
  /\ ev.out = Rejected(HttpError(500, 2, FALSE))
  /\ SessionCleared

\* C22: when several requests get 401 and each runs its own refresh, every
\* refresh response processed while the refresh token is stored overwrites
\* the access token with the one it returns (so the last one processed
\* wins), the refresh token stays as it is, and the request resubmitted then
\* carries the access token stored at that moment.
C22_LastRefreshWins ==
  [][(RefreshSucceeded /\ getRefreshToken(cookies) # Null) =>
       /\ getAccessToken(cookies') = ev'.resp.access
       /\ getRefreshToken(cookies') = getRefreshToken(cookies)
       /\ \A i \in 1..Len(ev'.sent) :
             /\ ev'.sent[i].resub
             /\ ev'.sent[i].stored = ev'.resp.access
             /\ ev'.sent[i].Authorization = <<"Bearer", ev'.resp.access>>]_vars

\* two requests got 401 and ran their refreshes; the one of invocation 1 was
\* processed and its request resubmitted, now the refresh of invocation 2
\* returns A2, which replaces the access token and goes out with the
\* resubmission of invocation 2
C22_Witness ==
  /\ Received
  /\ ev.c = 2
  /\ ev.kind = "refresh"
  /\ ev.depth = 2
  /\ ev.resp.access = "A2"
  /\ cookies = [access_token |-> "A2", refresh_token |-> "R1"]
  /\ Len(ev.sent) = 1
  /\ ev.sent[1].Authorization = <<"Bearer", "A2">>
  /\ pc[1] = "wire"
  /\ Len(stack[1]) = 1
  /\ stack[1][1].retry
  /\ wires[1] = 2

\* C23: where both tokens are stored, the access token is of the lineage of
\* the refresh token: issued with it by one login / register response, or
\* minted by a refresh request that carried that refresh token.  So the
\* access token a refresh response stores was asked for with the refresh
\* token it is stored next to.
C23_SameLineage ==
  [][(RefreshSucceeded /\ getRefreshToken(cookies) # Null) =>
       stack[ev'.c][ev'.depth].data = getRefreshToken(cookies')]_vars

\* C24: a refresh request answered 200 when the refresh token is no longer
\* stored (logout() ran while it was in flight and no login / register
\* followed) writes no token: both tokens remain absent.
C24_RefreshAfterLogoutWritesNothing ==
  (Received /\ ev.kind = "refresh" /\ IsSuccess(ev.resp.status)
     /\ getRefreshToken(cookies) = Null) =>
       /\ cookies = EmptyCookies
       /\ ev.navs = 0
       /\ ev.out \in {NoResult, Resolved}

\* the refresh made for a 401 is answered 200 after the session was removed:
\* nothing is stored, and the request is resubmitted all the same
C24_Witness ==
  /\ Received
  /\ ev.kind = "refresh"
  /\ ev.depth = 2
  /\ ev.resp.access = "A2"
  /\ cookies = EmptyCookies
  /\ Len(ev.sent) = 1
  /\ ev.sent[1].resub
  /\ ev.sent[1].stored = Null

\* C25: a login or register that ends in rejection, for any error status
\* including 401, dispatched no request but its own, rejects with the error
\* its endpoint returned, and signs nothing out (the tokens are as before).
C25_LoginRejectionPassedThrough ==
  (Received /\ ev.root = "auth" /\ ev.out # NoResult /\ ev.out # Resolved) =>
     /\ ev.out = Rejected(HttpError(ev.resp.status, 1, FALSE))
     /\ ev.wires = 1
     /\ ev.refreshCalls = 0
     /\ ev.navs = 0

\* C26: a request is resubmitted only with credentials of the session under
\* which it was first dispatched: when the session was cleared while the
\* request or its refresh was in flight, the resubmission carries no access
\* token of a session that was opened since.
C26_NoResubmissionInNewSession ==
  \A i \in 1..Len(ev.sent) :
     (ev.stale /\ ev.sent[i].resub /\ ev.sent[i].depth = 1) => ev.sent[i].stored = Null

\* ============================================================ the pages
\* The pages keep React state next to the client. Each page section below is
\* a specification of its own over the variable ui; the client's variables
\* stay as EndpointInit leaves them, and a request of a page is in flight
\* from the step that calls the client to the step that settles its promise.
apiVars == <<cookies, pc, stack, wires, refreshCalls>>

ApiIdle ==
  /\ cookies = EmptyCookies
  /\ pc = [c \in Calls |-> "idle"]
  /\ stack = [c \in Calls |-> <<>>]
  /\ wires = [c \in Calls |-> 0]
  /\ refreshCalls = [c \in Calls |-> 0]

\* ------------------------------------------------ redeeming (products page,
\* ProductRecommendations): both components hold the same handleRedeem, the
\* same 'redeeming' state and the same button; ui.comp says which one is
\* mounted
MaxPending == 2      \* redeemProduct calls and reloads pending at a time

Comps == {"ProductsPage", "ProductRecommendations"}
Products == {1, 2}
NoProduct == 0       \* useState<number | null>(null)
Balances == {0, 50, 100}
points_cost == [p \in Products |-> 50 * p]
discount_percentage == [p \in Products |-> IF p = 2 THEN 50 ELSE 0]
Inventories == [Products -> 0..1]

\* ProductRecommendations applies the recommendation's discount
effectiveCost(u, p) ==
  IF u.comp = "ProductRecommendations" /\ discount_percentage[p] # 0
    THEN (points_cost[p] * (100 - discount_percentage[p])) \div 100
    ELSE points_cost[p]

canRedeem(u, p) == u.balance >= effectiveCost(u, p)

\* the button's disabled attribute
RedeemDisabled(u, p) ==
  ~canRedeem(u, p) \/ u.inventory[p] <= 0 \/ u.redeeming = p

\* while loading the component renders a spinner and no button
RedeemClickable(u, p) == ~u.loading /\ ~RedeemDisabled(u, p)

InFlightTotal(u) == u.inFlight[1] + u.inFlight[2]

\* fetchData / fetchRecommendations up to its await
fetchData(u) == [u EXCEPT !.loading = TRUE, !.loads = @ + 1]

\* handleRedeem up to its await
handleRedeem(u, productId) ==
  [u EXCEPT !.redeeming = productId, !.inFlight[productId] = @ + 1]

\* handleRedeem after the await: reload on success, then the finally block
handleRedeemSettled(u, productId, ok) ==
  LET u1 == [u EXCEPT !.inFlight[productId] = @ - 1]
      u2 == IF ok THEN fetchData(u1) ELSE u1
  IN  [u2 EXCEPT !.redeeming = NoProduct]

RedeemEvent(op, p) == [op |-> op, p |-> p]

RedeemClick(p) ==
  /\ RedeemClickable(ui, p)
  /\ InFlightTotal(ui) + ui.loads < MaxPending
  /\ ui' = handleRedeem(ui, p)
  /\ ev' = RedeemEvent("click", p)
  /\ UNCHANGED apiVars

RedeemResolved(p) ==
  /\ ui.inFlight[p] > 0
  /\ ui' = handleRedeemSettled(ui, p, TRUE)
  /\ ev' = RedeemEvent("resolved", p)
  /\ UNCHANGED apiVars

RedeemRejected(p) ==
  /\ ui.inFlight[p] > 0
  /\ ui' = handleRedeemSettled(ui, p, FALSE)
  /\ ev' = RedeemEvent("rejected", p)
  /\ UNCHANGED apiVars

\* a reload settles: the list is replaced on success, loading ends either way
RedeemFetched(ok, inventory) ==
  /\ ui.loads > 0
  /\ ui' = [ui EXCEPT !.loads = @ - 1, !.loading = FALSE,
                      !.inventory = IF ok THEN inventory ELSE @]
  /\ ev' = RedeemEvent("fetched", NoProduct)
  /\ UNCHANGED apiVars

\* the component mounts loading, and its effect has started the first load
RedeemInit ==
  /\ ApiIdle
  /\ ui \in [comp : Comps, balance : Balances, loading : {TRUE}, loads : {1},
             redeeming : {NoProduct}, inFlight : {[p \in Products |-> 0]},
             inventory : {[p \in Products |-> 0]}]
  /\ ev = RedeemEvent("init", NoProduct)

DoRedeemClick == \E p \in Products : RedeemClick(p)
DoRedeemResolved == \E p \in Products : RedeemResolved(p)
DoRedeemRejected == \E p \in Products : RedeemRejected(p)
DoRedeemFetched == \E ok \in BOOLEAN, inventory \in Inventories : RedeemFetched(ok, inventory)

RedeemNext == DoRedeemClick \/ DoRedeemResolved \/ DoRedeemRejected \/ DoRedeemFetched

RedeemSpec == RedeemInit /\ [][RedeemNext]_vars

\* C27: while a redeemProduct call for product p is in flight, the Redeem
\* button of p cannot be clicked (redeeming = p), for any sequence of clicks
\* on p and on other products and any order of responses.
C27_InFlightButtonDisabled ==
  \A p \in Products : ui.inFlight[p] > 0 => ~RedeemClickable(ui, p)

\* ------------------------------------------------------- the upload page
\* (the version with the camera and the processing status; the invoice list
\* that fetchInvoices reloads is not part of the state)
MaxUploads == 2      \* handleFile invocations and their timers pending at a time

MaxFileSize == 10 * 1024 * 1024

ImagePrefix == <<"i", "m", "a", "g", "e", "/">>
Jpeg == ImagePrefix \o <<"j", "p", "e", "g">>
FileTypes ==
  { Jpeg,
    ImagePrefix \o <<"p", "n", "g">>,
    <<"a", "p", "p", "l", "i", "c", "a", "t", "i", "o", "n", "/", "p", "d", "f">>,
    <<"i", "m", "a", "g", "e">>,
    <<>> }
FileSizes == {0, MaxFileSize - 1, MaxFileSize, MaxFileSize + 1}
UploadFiles == [type : FileTypes, size : FileSizes]

startsWith(str, prefix) ==
  Len(str) >= Len(prefix) /\ SubSeq(str, 1, Len(prefix)) = prefix

NotAnImage == "Please upload an image file"
TooLarge == "File size must be less than 10MB"
UploadFailed == "Failed to upload invoice. Please try again."

\* the two validations of handleFile: "" when the file passes
Validate(file) ==
  IF ~startsWith(file.type, ImagePrefix) THEN NotAnImage
  ELSE IF file.size > MaxFileSize THEN TooLarge
  ELSE ""

\* handleFile up to its first await
handleFile(u, file) ==
  IF Validate(file) # ""
    THEN [u EXCEPT !.error = Validate(file)]
    ELSE [u EXCEPT !.uploading = TRUE, !.error = "", !.status = "processing",
                   !.wire = @ + 1]

UploadsPending(u) == u.wire + u.delay + u.doneTimers + u.errTimers

UploadEvent(op, file, pre) ==
  [op |-> op, file |-> file, uploading |-> pre.uploading, wire |-> pre.wire]

NoFile == [type |-> <<>>, size |-> 0]

\* a file chosen in the picker (its button is disabled while uploading) or
\* dropped on the drop area (which is not)
UploadHandleFile(via, file) ==
  /\ via = "input" => ~ui.uploading
  /\ Validate(file) = "" => UploadsPending(ui) < MaxUploads
  /\ ui' = handleFile(ui, file)
  /\ ev' = UploadEvent("handleFile", file, ui)
  /\ UNCHANGED apiVars

UploadOpenCamera ==
  /\ ~ui.uploading
  /\ ~ui.showCamera
  /\ ui' = [ui EXCEPT !.showCamera = TRUE, !.captured = FALSE]
  /\ ev' = UploadEvent("openCamera", NoFile, ui)
  /\ UNCHANGED apiVars

\* CameraUpload's captureImage hands a JPEG to onCapture = handleFile
UploadCapture(size) ==
  /\ ui.showCamera
  /\ ~ui.captured
  /\ UploadsPending(ui) < MaxUploads
  /\ ui' = handleFile([ui EXCEPT !.captured = TRUE], [type |-> Jpeg, size |-> size])
  /\ ev' = UploadEvent("handleFile", [type |-> Jpeg, size |-> size], ui)
  /\ UNCHANGED apiVars

\* CameraUpload's Retake button is disabled while isProcessing = uploading
UploadRetake ==
  /\ ui.showCamera
  /\ ui.captured
  /\ ~ui.uploading
  /\ ui' = [ui EXCEPT !.captured = FALSE]
  /\ ev' = UploadEvent("retake", NoFile, ui)
  /\ UNCHANGED apiVars

UploadCloseCamera ==
  /\ ui.showCamera
  /\ ui' = [ui EXCEPT !.showCamera = FALSE]
  /\ ev' = UploadEvent("closeCamera", NoFile, ui)
  /\ UNCHANGED apiVars

\* uploadInvoice resolves: the handler goes on to its one-second wait
UploadResolved ==
  /\ ui.wire > 0
  /\ ui' = [ui EXCEPT !.wire = @ - 1, !.delay = @ + 1, !.status = "processing"]
  /\ ev' = UploadEvent("resolved", NoFile, ui)
  /\ UNCHANGED apiVars

\* the wait ends: completed, the notification timer is set, then finally
UploadDelayDone ==
  /\ ui.delay > 0
  /\ ui' = [ui EXCEPT !.delay = @ - 1, !.doneTimers = @ + 1,
                      !.status = "completed", !.uploading = FALSE]
  /\ ev' = UploadEvent("completed", NoFile, ui)
  /\ UNCHANGED apiVars

\* uploadInvoice rejects: catch sets the error timer, then finally
UploadRejected ==
  /\ ui.wire > 0
  /\ ui' = [ui EXCEPT !.wire = @ - 1, !.errTimers = @ + 1,
                      !.status = "error", !.uploading = FALSE]
  /\ ev' = UploadEvent("rejected", NoFile, ui)
  /\ UNCHANGED apiVars

UploadDoneTimer ==
  /\ ui.doneTimers > 0
  /\ ui' = [ui EXCEPT !.doneTimers = @ - 1, !.status = Null, !.showCamera = FALSE]
  /\ ev' = UploadEvent("doneTimer", NoFile, ui)
  /\ UNCHANGED apiVars

UploadErrTimer ==
  /\ ui.errTimers > 0
  /\ ui' = [ui EXCEPT !.errTimers = @ - 1, !.status = Null, !.error = UploadFailed]
  /\ ev' = UploadEvent("errTimer", NoFile, ui)
  /\ UNCHANGED apiVars

UploadInit ==
  /\ ApiIdle
  /\ ui = [uploading |-> FALSE, error |-> "", status |-> Null,
           showCamera |-> FALSE, captured |-> FALSE,
           wire |-> 0, delay |-> 0, doneTimers |-> 0, errTimers |-> 0]
  /\ ev = UploadEvent("init", NoFile, ui)

DoUploadHandleFile ==
  \E via \in {"input", "drop"}, file \in UploadFiles : UploadHandleFile(via, file)
DoUploadCapture == \E size \in FileSizes : UploadCapture(size)

UploadNext ==
  \/ DoUploadHandleFile
  \/ UploadOpenCamera
  \/ DoUploadCapture
  \/ UploadRetake
  \/ UploadCloseCamera
  \/ UploadResolved
  \/ UploadDelayDone
  \/ UploadRejected
  \/ UploadDoneTimer
  \/ UploadErrTimer

UploadSpec == UploadInit /\ [][UploadNext]_vars

\* C28: the 'uploading' flag is true in every state where at least one
\* uploadInvoice call started by handleFile is in flight (and false once
\* none is), for any sequence of file selections, drops and camera captures.
C28_UploadingWhileInFlight == ui.wire > 0 => ui.uploading

\* C29: handleFile calls uploadInvoice only for a file whose MIME type starts
\* with 'image/' and whose size is less than 10 MB; for every other file it
\* sets an error, dispatches no request and leaves the uploading flag as it
\* was.
C29_OnlySmallImagesUploaded ==
  ev.op = "handleFile" =>
     IF startsWith(ev.file.type, ImagePrefix) /\ ev.file.size < MaxFileSize
       THEN ui.wire = ev.wire + 1
       ELSE /\ ui.wire = ev.wire
            /\ ui.error \in {NotAnImage, TooLarge}
            /\ ui.uploading = ev.uploading

\* ----------------------------------------------------------- CameraUpload
\* The stream a startCamera call obtains is named by the number of the call.
\* ui.active holds the streams whose tracks were not stopped, ui.pending the
\* getUserMedia calls not yet settled; both outlive the component. A handler
\* reads the state of the latest render; the cleanup of the mount effect
\* (dependencies []) keeps the stopCamera of the first render, whose stream
\* is null.
MaxStarts == 3       \* startCamera calls of one CameraUpload

NoStream == 0        \* useState<MediaStream | null>(null)
FacingModes == {"user", "environment"}

\* the <video> element is rendered unless the error or the captured image is
VideoRendered(u) == u.mounted /\ ~u.error /\ ~u.capturedImage

\* startCamera up to its await
startCamera(u) ==
  [u EXCEPT !.error = FALSE,
            !.active = @ \ {u.stream},
            !.started = @ + 1,
            !.pending = @ \cup {u.started + 1}]

\* stopCamera as the render that saw 'stream' in its state created it
stopCameraOf(u, stream) ==
  IF stream # NoStream
    THEN [u EXCEPT !.active = @ \ {stream}, !.stream = NoStream,
                   !.cameraActive = FALSE]
    ELSE u

stopCamera(u) == stopCameraOf(u, u.stream)

\* the cleanup of the mount effect: stopCamera of the first render
stopCameraAtMount(u) == stopCameraOf(u, NoStream)

CameraEvent(op, k) == [op |-> op, k |-> k]

\* getUserMedia of call k resolves: startCamera after its await
GetUserMediaResolved(k) ==
  /\ k \in ui.pending
  /\ LET u1 == [ui EXCEPT !.pending = @ \ {k}, !.active = @ \cup {k}]
         u2 == IF ui.mounted THEN [u1 EXCEPT !.stream = k] ELSE u1
     IN  ui' = IF VideoRendered(ui) THEN [u2 EXCEPT !.cameraActive = TRUE] ELSE u2
  /\ ev' = CameraEvent("resolved", k)
  /\ UNCHANGED apiVars

GetUserMediaRejected(k) ==
  /\ k \in ui.pending
  /\ ui' = [ui EXCEPT !.pending = @ \ {k}, !.error = IF ui.mounted THEN TRUE ELSE @]
  /\ ev' = CameraEvent("rejected", k)
  /\ UNCHANGED apiVars

\* the Try Again button of the error view
TryAgain ==
  /\ ui.mounted
  /\ ui.error
  /\ ui.started < MaxStarts
  /\ ui' = startCamera(ui)
  /\ ev' = CameraEvent("tryAgain", ui.started + 1)
  /\ UNCHANGED apiVars

\* switchCamera, and the effect on facingMode it triggers
switchCamera ==
  /\ VideoRendered(ui)
  /\ ui.cameraActive => ui.started < MaxStarts
  /\ LET u1 == [ui EXCEPT !.facingMode = IF @ = "user" THEN "environment" ELSE "user"]
     IN  ui' = IF u1.cameraActive THEN startCamera(u1) ELSE u1
  /\ ev' = CameraEvent("switchCamera", ui.started)
  /\ UNCHANGED apiVars

\* captureImage with a frame to draw: preview, stopCamera, onCapture(file);
\* the page's handleFile sets isProcessing when the file passes its checks
captureImage(valid) ==
  /\ VideoRendered(ui)
  /\ ui.cameraActive
  /\ ui' = [stopCamera(ui) EXCEPT !.capturedImage = TRUE, !.isProcessing = valid]
  /\ ev' = CameraEvent("captureImage", ui.stream)
  /\ UNCHANGED apiVars

\* the page's upload ends (finally: setUploading(false))
ProcessingDone ==
  /\ ui.mounted
  /\ ui.isProcessing
  /\ ui' = [ui EXCEPT !.isProcessing = FALSE]
  /\ ev' = CameraEvent("processingDone", NoStream)
  /\ UNCHANGED apiVars

retakePhoto ==
  /\ ui.mounted
  /\ ui.capturedImage
  /\ ~ui.isProcessing
  /\ ui.started < MaxStarts
  /\ ui' = startCamera([ui EXCEPT !.capturedImage = FALSE])
  /\ ev' = CameraEvent("retakePhoto", ui.started + 1)
  /\ UNCHANGED apiVars

\* the X of the header (always enabled) or Done: stopCamera, then onClose
\* unmounts the component and the mount effect's cleanup runs
handleClose ==
  /\ ui.mounted
  /\ ui.capturedImage => ~ui.isProcessing
  /\ ui' = [stopCameraAtMount(stopCamera(ui)) EXCEPT !.mounted = FALSE]
  /\ ev' = CameraEvent("handleClose", ui.stream)
  /\ UNCHANGED apiVars

\* the page's notification timer of an upload calls setShowCamera(false):
\* the component unmounts and only the mount effect's cleanup runs
Unmount ==
  /\ ui.mounted
  /\ ui' = [stopCameraAtMount(ui) EXCEPT !.mounted = FALSE]
  /\ ev' = CameraEvent("unmount", ui.stream)
  /\ UNCHANGED apiVars

\* the component has mounted and its mount effect has called startCamera
CameraInit ==
  /\ ApiIdle
  /\ ui = startCamera([mounted |-> TRUE, stream |-> NoStream, cameraActive |-> FALSE,
                       facingMode |-> "environment", capturedImage |-> FALSE,
                       error |-> FALSE, isProcessing |-> FALSE,
                       pending |-> {}, active |-> {}, started |-> 0])
  /\ ev = CameraEvent("mount", 1)

DoGetUserMediaResolved == \E k \in 1..MaxStarts : GetUserMediaResolved(k)
DoGetUserMediaRejected == \E k \in 1..MaxStarts : GetUserMediaRejected(k)
DoCaptureImage == \E valid \in BOOLEAN : captureImage(valid)

CameraNext ==
  \/ DoGetUserMediaResolved
  \/ DoGetUserMediaRejected
  \/ TryAgain
  \/ switchCamera
  \/ DoCaptureImage
  \/ ProcessingDone
  \/ retakePhoto
  \/ handleClose
  \/ Unmount

CameraSpec == CameraInit /\ [][CameraNext]_vars

\* C30: after CameraUpload is closed (handleClose) or unmounted, no media
\* stream obtained by any of its startCamera calls is still active, and at
\* any time at most one stream it obtained is active, for any sequence of
\* events and any completion order of the pending getUserMedia calls.
C30_NoStreamLeft ==
  /\ ~ui.mounted => ui.active = {}
  /\ Cardinality(ui.active) <= 1

====
